---- MODULE Spec2Model ----
(***************************************************************************)
(* DaCCe.__init__ (src/brazilfiscalreport/dacce/dacce.py): the constructor  *)
(* parses a CC-e event XML, locates four nodes, and issues a fixed recipe   *)
(* of drawing commands, most of them inside try/except blocks.              *)
(*                                                                          *)
(* Texts are sequences of tokens (a token is a chunk of characters that no  *)
(* operation of the constructor splits); the access key and the Id          *)
(* attribute are sequences of single characters, because the code slices    *)
(* them.  The empty text is << >>.  None is << >> and a present value v is  *)
(* << v >> wherever the code tests "is None".                               *)
(***************************************************************************)
EXTENDS Integers, Sequences, FiniteSets, TLC

VARIABLES xml, emitente, image, pc, pages, cmds,
          namespace_uri, is_nfe, det_event, inf_event, inf_ret_event,
          key, barcode_failed

vars == <<xml, emitente, image, pc, pages, cmds,
          namespace_uri, is_nfe, det_event, inf_event, inf_ret_event,
          key, barcode_failed>>

\* ------------------------------------------------------------------ texts

DigitChars == {"0", "1", "2", "3", "4", "5", "6", "7", "8", "9"}

Whitespace == {" ", "\n"}

RECURSIVE Concat(_)
\* The concatenation of a sequence of texts.
Concat(ss) == IF ss = << >> THEN << >> ELSE Head(ss) \o Concat(Tail(ss))

RECURSIVE LStrip(_, _)
LStrip(s, chars) ==
    IF s # << >> /\ Head(s) \in chars THEN LStrip(Tail(s), chars) ELSE s

RECURSIVE RStrip(_, _)
RStrip(s, chars) ==
    IF s # << >> /\ s[Len(s)] \in chars
    THEN RStrip(SubSeq(s, 1, Len(s) - 1), chars) ELSE s

\* str.strip(): surrounding whitespace removed; str.strip("{"): surrounding
\* braces removed.
Strip(s) == RStrip(LStrip(s, Whitespace), Whitespace)

StripChars(s, chars) == RStrip(LStrip(s, chars), chars)

\* s[a:b] of Python, 0-based, clamped to the length of s.
Slice(s, a, b) ==
    LET hi == IF b < Len(s) THEN b ELSE Len(s)
    IN  IF a >= hi THEN << >> ELSE SubSeq(s, a + 1, hi)

\* The least index of token c in s, 0 when it does not occur.
IndexOf(s, c) ==
    IF \E i \in 1..Len(s) : s[i] = c
    THEN CHOOSE i \in 1..Len(s) : s[i] = c /\ \A j \in 1..(i - 1) : s[j] # c
    ELSE 0

\* tag.split("}")[0]: the text before the first "}", all of it without one.
SplitHead(s) ==
    IF IndexOf(s, "}") = 0 THEN s ELSE SubSeq(s, 1, IndexOf(s, "}") - 1)

\* tag.split("}", 1)[-1] if "}" in tag else tag.
strip_ns(tag) ==
    IF IndexOf(tag, "}") = 0 THEN tag
    ELSE SubSeq(tag, IndexOf(tag, "}") + 1, Len(tag))

\* str.lower() on the tokens of the model's alphabet.
LowerToken(t) ==
    CASE t = "NFe" -> "nfe"
      [] t = "NFE" -> "nfe"
      [] t = "CTe" -> "cte"
      [] t = "procEvento" -> "procevento"
      [] t = "HTTP://WWW.PORTALFISCAL.INF.BR/" -> "http://www.portalfiscal.inf.br/"
      [] OTHER -> t

Lower(s) == [i \in 1..Len(s) |-> LowerToken(s[i])]

\* "nfe" in s: the marker is one token of the alphabet, never split over two.
ContainsNfe(s) == \E i \in 1..Len(s) : s[i] = "nfe"

\* ------------------------------------------------------------ XML tree

\* An element: its tag ("{uri}local" as ElementTree spells it), its
\* attributes, its text and its children in document order.
Elem(tag, attrib, text, kids) ==
    [tag |-> tag, attrib |-> attrib, text |-> text, kids |-> kids]

\* "{uri}local", or "local" for an element in no namespace.
QName(uri, local) ==
    IF uri = << >> THEN local ELSE <<"{">> \o uri \o <<"}">> \o local

RECURSIVE Descendants(_)
RECURSIVE DescendantsOfAll(_)
\* Every element below e, in document order (e itself excluded).
Descendants(e) == DescendantsOfAll(e.kids)

DescendantsOfAll(ks) ==
    IF ks = << >> THEN << >>
    ELSE <<Head(ks)>> \o Descendants(Head(ks)) \o DescendantsOfAll(Tail(ks))

\* The first element of es with the tag, << >> (None) without one.
FirstTagged(es, tag) ==
    IF \E i \in 1..Len(es) : es[i].tag = tag
    THEN <<es[CHOOSE i \in 1..Len(es) :
                /\ es[i].tag = tag
                /\ \A j \in 1..(i - 1) : es[j].tag # tag]>>
    ELSE << >>

\* URL = f".//{{{namespace_uri}}}" followed by the tag: the qualified name
\* a descendant must have to match.
URL(uri, tag) == <<"{">> \o uri \o <<"}">> \o tag

\* node.find(f"{URL}{tag}"): the first descendant, in document order.
Find(node, uri, tag) == FirstTagged(Descendants(node), URL(uri, tag))

\* find_text_ns(node, tag): "" for None, for no match and for a match
\* without text; stripped otherwise.
find_text_ns(node, uri, tag) ==
    IF node = << >> THEN << >>
    ELSE LET hit == Find(node[1], uri, tag)
         IN  IF hit = << >> THEN << >> ELSE Strip(hit[1].text)

\* attrib.get(name): << >> (None) when the attribute is missing.
AttribGet(attrib, name) ==
    IF \E i \in 1..Len(attrib) : attrib[i][1] = name
    THEN <<attrib[CHOOSE i \in 1..Len(attrib) : attrib[i][1] = name][2]>>
    ELSE << >>

\* ------------------------------------------------------------ inputs

\* The most infCorrecao entries a generated evCCeCTe group holds.
MaxEntries == 2

Rep(c, n) == [i \in 1..n |-> c]

NS_NFE == <<"http://www.portalfiscal.inf.br/", "nfe">>

NS_CTE == <<"http://www.portalfiscal.inf.br/", "cte">>

NoNamespace == << >>

\* The invoice namespace spelled in capitals, and a namespace of neither
\* schema.
NS_NFE_UPPER == <<"HTTP://WWW.PORTALFISCAL.INF.BR/", "NFE">>

NS_OTHER == <<"http://example.org/eventos">>

\* The root elements' (namespace, local name): the two schemas, and the
\* same two root names in no namespace.
Roots ==
    { <<NS_NFE, <<"procEvento", "NFe">>>>, <<NS_CTE, <<"procEvento", "CTe">>>>,
      <<NoNamespace, <<"procEvento", "NFe">>>>,
      <<NoNamespace, <<"procEvento", "CTe">>>> }

NamespacedRoots == {r \in Roots : r[1] # NoNamespace}

\* The access-key tag the document's schema uses.
SchemaKeyTag(rt) == IF rt[2][2] = "NFe" THEN "chNFe" ELSE "chCTe"

\* Access keys: cUF AAMM CNPJ mod (22), serie (3), nNF (9), tpEmis cNF cDV (10).
KeyOf(serie, nnf) == Rep("3", 22) \o serie \o nnf \o Rep("7", 10)

Key_4567 == KeyOf(<<"1", "2", "3">>, <<"0", "0", "0", "0", "0", "4", "5", "6", "7">>)

Key_Max == KeyOf(<<"0", "0", "1">>, <<"9", "8", "7", "6", "5", "4", "3", "2", "1">>)

Key_Short30 == SubSeq(Key_4567, 1, 30)

Key_Short25 == SubSeq(Key_4567, 1, 25)

Key_LetterInNumber ==
    KeyOf(<<"1", "2", "3">>, <<"0", "0", "0", "0", "0", "X", "5", "6", "7">>)

Key_LetterOutside == <<"X">> \o Tail(Key_4567)

Key_Signed == KeyOf(<<"1", "2", "3">>, <<"-", "0", "0", "0", "0", "0", "0", "1", "2">>)

\* The key in the registration infEvento (a real retEvento repeats chNFe).
Key_Ret == KeyOf(<<"0", "5", "5">>, <<"0", "0", "0", "0", "0", "0", "0", "8", "8">>)

\* << >> stands for a document without the key element.
Keys == { << >>, Key_4567, Key_Max, Key_Short30, Key_Short25,
          Key_LetterInNumber, Key_LetterOutside, Key_Signed }

TS_Event == <<"2024-05-01T10:00:00-03:00">>

TS_Reg == <<"2024-05-01T10:00:05-03:00">>

TS_Bad == <<"not-a-date">>

Id_Event == <<"I", "D", "1", "1", "0", "1", "1", "0">>

Id_Short == <<"I">>

Id_Ret == <<"I", "D", "9", "9">>

CNPJ_Author == Rep("1", 8) \o <<"0", "0", "0", "1", "9", "1">>

CPF_Author == Rep("2", 9) \o <<"7", "2">>

CNPJ_Dest == Rep("4", 8) \o <<"0", "0", "0", "1", "5", "5">>

CNPJ_Ret == Rep("6", 8) \o <<"0", "0", "0", "1", "8", "8">>

\* A child element with text only; no element for the empty text.
Leaf(ns, name, text) ==
    IF text = << >> THEN << >> ELSE <<Elem(QName(ns, <<name>>), << >>, text, << >>)>>

IdAttr(v) == IF v = << >> THEN << >> ELSE << <<"Id", v>> >>

\* An infCorrecao entry of the transport schema, children in schema order.
InfCorrecao(ns, grupo, campo, valor, nro) ==
    Elem(QName(ns, <<"infCorrecao">>), << >>, << >>,
         Leaf(ns, "grupoAlterado", grupo) \o Leaf(ns, "campoAlterado", campo)
         \o Leaf(ns, "valorAlterado", valor) \o Leaf(ns, "nroItemAlterado", nro))

\* The (grupo, campo, valor, nroItem) of the generated entries.
EntryKinds ==
    { << <<"ide">>, <<"nCT">>, <<"100.00">>, <<"2">> >>,
      << << >>, <<"xNome">>, <<"ACME">>, << >> >>,
      << << >>, <<"vCarga">>, << >>, <<"7">> >> }

RECURSIVE SeqsUpTo(_, _)
\* The sequences over S of length at most n.
SeqsUpTo(S, n) ==
    IF n = 0 THEN { << >> }
    ELSE LET shorter == SeqsUpTo(S, n - 1)
         IN  shorter \cup {Append(s, x) : s \in shorter, x \in S}

X_Correcao == <<" ", "Onde se le A leia-se B", "\n">>

X_CondUso == <<"A Carta de Correcao e disciplinada pelo art. 58-B">>

\* detEvento: xCorrecao and xCondUso (invoice schema) and an evCCeCTe group
\* of entries (transport schema); grp says whether the group element exists.
DetEvento(ns, xcorr, xcond, grp, entries) ==
    Elem(QName(ns, <<"detEvento">>), << >>, << >>,
         Leaf(ns, "xCorrecao", xcorr)
         \o (IF grp
             THEN <<Elem(QName(ns, <<"evCCeCTe">>), << >>, << >>,
                         [i \in 1..Len(entries) |->
                             InfCorrecao(ns, entries[i][1], entries[i][2],
                                         entries[i][3], entries[i][4])])>>
             ELSE << >>)
         \o Leaf(ns, "xCondUso", xcond))

\* The event's own infEvento; det is << >> or << detEvento >>.
TopInfEvento(ns, keytag, id, cnpj, cpf, k, dh, det) ==
    Elem(QName(ns, <<"infEvento">>), IdAttr(id), << >>,
         Leaf(ns, "CNPJ", cnpj) \o Leaf(ns, "CPF", cpf) \o Leaf(ns, keytag, k)
         \o Leaf(ns, "dhEvento", dh) \o det)

\* The registration infEvento, the one inside retEvento.
RetInfEvento(ns, keytag, id, k, cnpjdest, cnpj, dh, nprot) ==
    Elem(QName(ns, <<"infEvento">>), IdAttr(id), << >>,
         Leaf(ns, keytag, k) \o Leaf(ns, "CNPJDest", cnpjdest)
         \o Leaf(ns, "CNPJ", cnpj) \o Leaf(ns, "dhRegEvento", dh)
         \o Leaf(ns, "nProt", nprot))

\* (Id, CNPJ, CPF, dhEvento) of the generated event infEvento elements.
TopProfiles ==
    { <<Id_Event, CNPJ_Author, CPF_Author, TS_Event>>,
      <<Id_Short, << >>, CPF_Author, TS_Bad>>,
      << << >>, << >>, << >>, << >> >> }

\* (Id, key, CNPJDest, CNPJ, dhRegEvento, nProt) of the generated
\* registration infEvento elements.
RetProfiles ==
    { <<Id_Ret, Key_Ret, CNPJ_Dest, CNPJ_Ret, TS_Reg, <<"135240000000001">>>>,
      << << >>, Key_Ret, <<" ">>, CNPJ_Ret, TS_Reg, << >> >>,
      <<Id_Ret, << >>, << >>, CNPJ_Ret, << >>, <<"135240000000002">>>>,
      << << >>, << >>, <<" ">>, << >>, TS_Bad, <<"135240000000003">>>>,
      << << >>, << >>, << >>, << >>, <<" ">>, <<" ">> >> }

\* How the root's children are laid out: "er" is the schema's order.
Layouts == {"er", "re", "e", "r", "e_r0", "none"}

Wrap(ns, name, kids) == Elem(QName(ns, <<name>>), << >>, << >>, kids)

\* The document of a root, a layout, an event infEvento (<< >> or one
\* element) and a registration infEvento.
Document(rt, layout, top, ret) ==
    LET ns == rt[1]
        ev == Wrap(ns, "evento", top)
        re == Wrap(ns, "retEvento", ret)
    IN  Elem(QName(ns, rt[2]), << >>, << >>,
             CASE layout = "er" -> <<ev, re>>
               [] layout = "re" -> <<re, ev>>
               [] layout = "e" -> <<ev>>
               [] layout = "r" -> <<re>>
               [] layout = "e_r0" -> <<ev, Wrap(ns, "retEvento", << >>)>>
               [] OTHER -> << >>)

TopOf(rt, p, k, det) ==
    <<TopInfEvento(rt[1], SchemaKeyTag(rt), p[1], p[2], p[3], k, p[4], det)>>

RetOf(rt, p) ==
    <<RetInfEvento(rt[1], SchemaKeyTag(rt), p[1], p[2], p[3], p[4], p[5], p[6])>>

DefaultDet(rt) == <<DetEvento(rt[1], X_Correcao, X_CondUso, FALSE, << >>)>>

\* Envelope documents: every layout, event infEvento, key and registration
\* infEvento, with or without a plain detEvento.
EnvelopeDocuments ==
    { Document(rt, layout,
               TopOf(rt, p, k, IF hasdet THEN DefaultDet(rt) ELSE << >>),
               RetOf(rt, r)) :
        rt \in NamespacedRoots, layout \in Layouts, p \in TopProfiles,
        k \in Keys, r \in RetProfiles, hasdet \in BOOLEAN }

\* Correction documents: every detEvento, in a full envelope.
CorrectionDocuments ==
    { Document(rt, "er",
               TopOf(rt, <<Id_Event, CNPJ_Author, CPF_Author, TS_Event>>, Key_4567,
                     <<DetEvento(rt[1], xc, X_CondUso, grp, es)>>),
               RetOf(rt, <<Id_Ret, Key_Ret, CNPJ_Dest, CNPJ_Ret, TS_Reg,
                           <<"135240000000001">>>>)) :
        rt \in NamespacedRoots, xc \in {<< >>, <<" ">>, X_Correcao},
        grp \in BOOLEAN, es \in SeqsUpTo(EntryKinds, MaxEntries) }

\* Documents whose root is in no namespace.
BareDocuments ==
    { Document(rt, layout,
               TopOf(rt, <<Id_Event, CNPJ_Author, CPF_Author, TS_Event>>, Key_4567,
                     DefaultDet(rt)),
               RetOf(rt, <<Id_Ret, Key_Ret, CNPJ_Dest, CNPJ_Ret, TS_Reg,
                           <<"135240000000001">>>>)) :
        rt \in Roots \ NamespacedRoots, layout \in {"er", "none"} }

\* Documents of other namespaces: the kind must follow the URI, not the
\* root's name.
OtherNamespaceDocuments ==
    { Document(rt, "er",
               TopOf(rt, <<Id_Event, CNPJ_Author, CPF_Author, TS_Event>>, Key_4567,
                     DefaultDet(rt)),
               RetOf(rt, <<Id_Ret, Key_Ret, CNPJ_Dest, CNPJ_Ret, TS_Reg,
                           <<"135240000000001">>>>)) :
        rt \in { <<NS_NFE_UPPER, <<"procEvento", "NFe">>>>,
                 <<NS_OTHER, <<"procEvento", "NFe">>>>,
                 <<NS_OTHER, <<"procEvento", "CTe">>>> } }

\* Series and document numbers of further valid keys.
Series == { <<"0", "0", "0">>, <<"1", "2", "3">>, <<"9", "9", "9">> }

Numbers ==
    { Rep("0", 9), Rep("0", 8) \o <<"1">>, Rep("0", 5) \o <<"1", "0", "0", "0">>,
      <<"1">> \o Rep("0", 8), Rep("9", 9),
      <<"0", "1", "2", "3", "4", "5", "6", "7", "8">> }

\* Documents of every series and number, in a plain envelope.
KeyDocuments ==
    { Document(rt, "e",
               TopOf(rt, <<Id_Event, CNPJ_Author, CPF_Author, TS_Event>>,
                     KeyOf(se, nu), << >>),
               << >>) :
        rt \in NamespacedRoots, se \in Series, nu \in Numbers }

Roots_of_documents ==
    EnvelopeDocuments \cup CorrectionDocuments \cup BareDocuments
    \cup OtherNamespaceDocuments \cup KeyDocuments

\* The xml argument: bytes that parse to a tree, or bytes that do not.
WellFormed(root) == [wellformed |-> TRUE, root |-> root]

Malformed == [wellformed |-> FALSE, root |-> Elem(<<"#">>, << >>, << >>, << >>)]

XmlInputs == {WellFormed(r) : r \in Roots_of_documents} \cup {Malformed}

Emitente1 ==
    [nome |-> <<"ACME LTDA">>, end |-> <<"RUA UM, 100">>, bairro |-> <<"CENTRO">>,
     cidade |-> <<"SAO PAULO">>, uf |-> <<"SP">>, fone |-> <<"1133334444">>]

\* (emitente, image) as the caller passes them; << >> is None.
CallerInputs == { << << >>, << >> >>, << <<Emitente1>>, <<"logo.png">> >>,
                  << <<Emitente1>>, << >> >> }

\* ------------------------------------------------- helpers of ..utils

\* get_date_utc(text): (date, time) of an ISO-8601 timestamp with offset;
\* anything else does not parse.
DateTimes == { TS_Event, TS_Reg }

get_date_utc(s) ==
    CASE s = TS_Event ->
           [raised |-> FALSE, dt |-> <<"01/05/2024">>, hr |-> <<"10:00:00">>]
      [] s = TS_Reg ->
           [raised |-> FALSE, dt |-> <<"01/05/2024">>, hr |-> <<"10:00:05">>]
      [] OTHER -> [raised |-> TRUE, dt |-> << >>, hr |-> << >>]

\* format_cpf_cnpj(digits): company punctuation for 14 characters,
\* individual punctuation otherwise.
format_cpf_cnpj(d) ==
    IF Len(d) = 14
    THEN Slice(d, 0, 2) \o <<".">> \o Slice(d, 2, 5) \o <<".">> \o Slice(d, 5, 8)
         \o <<"/">> \o Slice(d, 8, 12) \o <<"-">> \o Slice(d, 12, 14)
    ELSE Slice(d, 0, 3) \o <<".">> \o Slice(d, 3, 6) \o <<".">> \o Slice(d, 6, 9)
         \o <<"-">> \o Slice(d, 9, Len(d))

RECURSIVE chunks(_, _)
\* chunks(s, n): s cut into pieces of n characters, the last one shorter.
chunks(s, n) ==
    IF s = << >> THEN << >>
    ELSE <<Slice(s, 0, n)>> \o chunks(Slice(s, n, Len(s)), n)

RECURSIVE Join(_, _)
\* sep.join(parts)
Join(sep, parts) ==
    IF parts = << >> THEN << >>
    ELSE IF Len(parts) = 1 THEN parts[1]
    ELSE parts[1] \o sep \o Join(sep, Tail(parts))

\* ------------------------------------------------- Python's int and format

DigitVal ==
    [c \in DigitChars |->
        CASE c = "0" -> 0 [] c = "1" -> 1 [] c = "2" -> 2 [] c = "3" -> 3
          [] c = "4" -> 4 [] c = "5" -> 5 [] c = "6" -> 6 [] c = "7" -> 7
          [] c = "8" -> 8 [] OTHER -> 9]

DigitChar ==
    [n \in 0..9 |-> CHOOSE c \in DigitChars : DigitVal[c] = n]

IsDigits(s) == s # << >> /\ \A i \in 1..Len(s) : s[i] \in DigitChars

RECURSIVE ToNat(_)
ToNat(s) ==
    IF s = << >> THEN 0
    ELSE 10 * ToNat(SubSeq(s, 1, Len(s) - 1)) + DigitVal[s[Len(s)]]

\* int(s): an optional sign and decimal digits; anything else raises
\* ValueError (the alphabet holds no underscore and no inner whitespace).
int(s) ==
    LET signed == s # << >> /\ Head(s) \in {"-", "+"}
        body == IF signed THEN Tail(s) ELSE s
    IN  IF IsDigits(body)
        THEN [raised |-> FALSE,
              value |-> IF signed /\ Head(s) = "-" THEN 0 - ToNat(body)
                        ELSE ToNat(body)]
        ELSE [raised |-> TRUE, value |-> 0]

RECURSIVE NatDigits(_)
\* str(n) for n >= 0.
NatDigits(n) ==
    IF n < 10 THEN <<DigitChar[n]>>
    ELSE NatDigits(n \div 10) \o <<DigitChar[n % 10]>>

Min2(a, b) == IF a < b THEN a ELSE b

Max2(a, b) == IF a > b THEN a ELSE b

RECURSIVE Grouped(_, _)
\* The digits grouped in threes from the right with ",", zero-filled to at
\* least min_width characters, a separator never leading.
Grouped(digits, min_width) ==
    LET remaining == Len(digits)
        len == Min2(3, Max2(Max2(remaining, min_width), 1))
        n_chars == Min2(remaining, len)
        group == Rep("0", len - n_chars)
                 \o SubSeq(digits, remaining - n_chars + 1, remaining)
        rest == SubSeq(digits, 1, remaining - n_chars)
    IN  IF remaining - n_chars <= 0 /\ min_width - len <= 0 THEN group
        ELSE Grouped(rest, min_width - len - 1) \o <<",">> \o group

\* f"{n:011,}": sign, then the grouped digits zero-filled to width 11.
Format011Comma(n) ==
    IF n < 0 THEN <<"-">> \o Grouped(NatDigits(0 - n), 10)
    ELSE Grouped(NatDigits(n), 11)

\* s.replace(",", ".")
ReplaceComma(s) == [i \in 1..Len(s) |-> IF s[i] = "," THEN "." ELSE s[i]]

\* ------------------------------------------------------------ canvas

\* One drawing command of the canvas.  A line's w, h are its end point; a
\* multi_cell's x, y are the cursor set_xy left it at.
Cmd(op, x, y, w, h, text) ==
    [op |-> op, x |-> x, y |-> y, w |-> w, h |-> h, text |-> text]

Rect(x, y, w, h) == Cmd("rect", x, y, w, h, << >>)

Line(x1, y1, x2, y2) == Cmd("line", x1, y1, x2, y2, << >>)

Text(x, y, text) == Cmd("text", x, y, 0, 0, text)

MultiCell(x, y, w, h, text) == Cmd("multi_cell", x, y, w, h, text)

Image(x, y, w, h) == Cmd("image", x, y, w, h, << >>)

\* What a step did: the commands it issued, and whether it then raised.
Ok(out) == [raised |-> FALSE, out |-> out]

Raised == [raised |-> TRUE, out |-> << >>]

\* ------------------------------------------------------- the constructor

\* TryBlocks with the barcode's try block missing.
TryBlocks_NoBarcode ==
    { "event_id", "created", "protocol", "key", "recipient", "nota", "cond_uso",
      "xcorrecao", "inf_correcao" }

\* The steps whose statements sit inside a try/except Exception block.
TryBlocks ==
    { "event_id", "created", "protocol", "key", "barcode", "recipient",
      "nota", "cond_uso", "xcorrecao", "inf_correcao" }

Caught(step) == step \in TryBlocks

\* FromString with a parser that recovers from malformed bytes.
FromString_Lenient(x) == [raised |-> FALSE, root |-> x.root]

\* ET.fromstring(xml): the root, or ParseError for bytes that are not
\* well-formed.
FromString(x) == [raised |-> ~x.wellformed, root |-> x.root]

\* namespace_uri = root.tag.split("}")[0].strip("{")
NamespaceUri(root) == StripChars(SplitHead(root.tag), {"{"})

\* is_nfe = "nfe" in namespace_uri.lower()
IsNfe(uri) == ContainsNfe(Lower(uri))

\* inf_ret_event = ret_event.find(...) if ret_event is not None else None
InfRetEvent(ret_event, uri) ==
    IF ret_event # << >> THEN Find(ret_event[1], uri, <<"infEvento">>) ELSE << >>

\* Lines 55-91: the page, the issuer box, the title and the subtitle.
IssuerBox(emit, img, nfe) ==
    LET emitente_nome == IF emit # << >> THEN emit[1].nome ELSE << >>
        text == IF emit # << >>
                THEN emit[1].end \o <<"\n">> \o emit[1].bairro \o <<"\n">>
                     \o emit[1].cidade \o <<" - ">> \o emit[1].uf \o <<" ">>
                     \o emit[1].fone
                ELSE << >>
        col_ == IF img # << >> THEN 23 ELSE 11
        col_end == IF img # << >> THEN 28 ELSE 24
        w_ == IF img # << >> THEN 67 ELSE 80
        doc_title == IF nfe THEN <<"CC-e de Nota Fiscal Eletrônica">>
                     ELSE <<"CC-e de Conhecimento de Transporte Eletrônico">>
    IN  <<Rect(10, 10, 190, 33), Line(90, 10, 90, 43)>>
        \o (IF img # << >> THEN <<Cmd("image", 12, 12, 12, 0, img)>> ELSE << >>)
        \o <<MultiCell(col_, 16, w_, 4, emitente_nome),
             MultiCell(11, col_end, 80, 4, text),
             Text(118, 16, <<"Representação Gráfica de CC-e">>),
             Text(123, 20, <<"(">> \o doc_title \o <<")">>)>>

\* Lines 94-99.
EventIdLine(inf) ==
    IF inf # << >>
    THEN LET evento_id == AttribGet(inf[1].attrib, "Id")
         IN  IF evento_id = << >> THEN Raised
             ELSE Ok(<<Text(92, 30, <<"ID do Evento: ">>
                                    \o Slice(evento_id[1], 2, Len(evento_id[1])))>>)
    ELSE Ok(<< >>)

\* Lines 101-106.
CreatedLine(inf, uri) ==
    LET d == get_date_utc(find_text_ns(inf, uri, <<"dhEvento">>))
    IN  IF d.raised THEN Raised
        ELSE Ok(<<Text(92, 35, <<"Criado em: ">> \o d.dt \o <<" ">> \o d.hr)>>)

\* HasProtocol with "or" for "and".
HasProtocol_Either(dh_reg_str, n_prot) == dh_reg_str # << >> \/ n_prot # << >>

\* Line 113: if dh_reg_str and n_prot
HasProtocol(dh_reg_str, n_prot) == dh_reg_str # << >> /\ n_prot # << >>

\* Lines 108-121.
ProtocolLine(inf_ret, uri) ==
    IF inf_ret # << >>
    THEN LET dh_reg_str == find_text_ns(inf_ret, uri, <<"dhRegEvento">>)
             n_prot == find_text_ns(inf_ret, uri, <<"nProt">>)
             d == get_date_utc(dh_reg_str)
         IN  IF HasProtocol(dh_reg_str, n_prot)
             THEN IF d.raised THEN Raised
                  ELSE Ok(<<Text(92, 40, <<"Protocolo: ">> \o n_prot
                                 \o <<" - Registrado na SEFAZ em: ">> \o d.dt
                                 \o <<" ">> \o d.hr)>>)
             ELSE Ok(<< >>)
    ELSE Ok(<< >>)

aviso ==
    <<"De acordo com as determinações legais vigentes, vimos por meio desta comunicar-lhe que a Nota Fiscal, abaixo referenciada, contém irregularidades que estão destacadas e suas respectivas correções. Solicitamos que sejam aplicadas essas correções ao executar seus lançamentos fiscais.">>

\* Lines 125-138.
AdvisoryBox ==
    <<Rect(10, 47, 190, 50), Line(10, 83, 200, 83), MultiCell(11, 48, 185, 4, aviso)>>

\* Line 140: tag_chave = "chNFe" if is_nfe else "chCTe"
TagChave(nfe) == IF nfe THEN <<"chNFe">> ELSE <<"chCTe">>

\* Lines 147-156: Code128 and the image raise or draw the barcode.
BarcodeImage(fails) == IF fails THEN Raised ELSE Ok(<<Image(127, 60, 73, 8)>>)

\* Lines 158-159.
KeyText(k) == <<Text(130, 78, Join(<<" ">>, chunks(k, 4)))>>

\* Lines 164-171: the (label, value) of the recipient or author.
RecipientOrAuthor(nfe, inf, inf_ret, uri) ==
    IF nfe
    THEN LET cnpj_dest == find_text_ns(inf_ret, uri, <<"CNPJDest">>)
         IN  <<<<"CNPJ Destinatário">>,
               IF cnpj_dest = << >> THEN find_text_ns(inf_ret, uri, <<"CNPJ">>)
               ELSE cnpj_dest>>
    ELSE LET cnpj == find_text_ns(inf, uri, <<"CNPJ">>)
         IN  <<<<"Autor do Evento">>,
               IF cnpj # << >> THEN cnpj ELSE find_text_ns(inf, uri, <<"CPF">>)>>

\* Lines 163-175.
RecipientLine(nfe, inf, inf_ret, uri) ==
    LET r == RecipientOrAuthor(nfe, inf, inf_ret, uri)
    IN  Ok(<<Text(12, 71, r[1] \o <<":  ">> \o format_cpf_cnpj(r[2]))>>)

\* NumberSlice one character early.
NumberSlice_Shifted(k) == Slice(k, 24, 33)

\* Line 179: the slice of the key that holds the document number.
NumberSlice(k) == Slice(k, 25, 34)

\* Line 180: nf_serie = key[22:25]
SerieSlice(k) == Slice(k, 22, 25)

\* Line 179: nf_num = f"{int(key[25:34]):011,}".replace(",", ".")
NfNum(n) == ReplaceComma(Format011Comma(n))

\* Lines 178-183.
NotaLine(k) ==
    LET n == int(NumberSlice(k))
    IN  IF n.raised THEN Raised
        ELSE Ok(<<Text(12, 76, <<"Nota Fiscal: ">> \o NfNum(n.value)
                               \o <<" - Série: ">> \o SerieSlice(k))>>)

\* Lines 185-193.
CondUso(det, uri) ==
    <<MultiCell(11, 84, 185, 3, find_text_ns(det, uri, <<"xCondUso">>))>>

\* The text of the last child of e named name, "" without one (the loop of
\* lines 229-238 overwrites; text or "").
RECURSIVE LastChildText(_, _, _)
LastChildText(kids, name, acc) ==
    IF kids = << >> THEN acc
    ELSE LastChildText(Tail(kids), name,
                       IF strip_ns(Head(kids).tag) = name THEN Head(kids).text
                       ELSE acc)

\* Suffixes appended whether or not the sub-fields are empty.
Suffixes_Unconditional(grupo, nro_item) ==
    <<" | Grupo: ">> \o grupo \o <<" | Item: ">> \o nro_item

\* Lines 241-244: the suffixes of a line.
Suffixes(grupo, nro_item) ==
    (IF grupo # << >> THEN <<" | Grupo: ">> \o grupo ELSE << >>)
    \o (IF nro_item # << >> THEN <<" | Item: ">> \o nro_item ELSE << >>)

\* Lines 224-244: the line of one infCorrecao.
Linha(inf_corr) ==
    LET grupo == LastChildText(inf_corr.kids, <<"grupoAlterado">>, << >>)
        campo == LastChildText(inf_corr.kids, <<"campoAlterado">>, << >>)
        valor == LastChildText(inf_corr.kids, <<"valorAlterado">>, << >>)
        nro_item == LastChildText(inf_corr.kids, <<"nroItemAlterado">>, << >>)
    IN  <<"Campo: ">> \o campo \o <<" | Valor: ">> \o valor
        \o Suffixes(grupo, nro_item)

RECURSIVE CorrecaoLista(_)
\* Lines 222-246: one line per infCorrecao child, in order.
CorrecaoLista(kids) ==
    IF kids = << >> THEN << >>
    ELSE (IF strip_ns(Head(kids).tag) = <<"infCorrecao">>
          THEN <<Linha(Head(kids))>> ELSE << >>)
         \o CorrecaoLista(Tail(kids))

\* Lines 215-219: the first child of detEvento named evCCeCTe.
EvCCeCTe(det) ==
    LET ks == det.kids
    IN  IF \E i \in 1..Len(ks) : strip_ns(ks[i].tag) = <<"evCCeCTe">>
        THEN <<ks[CHOOSE i \in 1..Len(ks) :
                    /\ strip_ns(ks[i].tag) = <<"evCCeCTe">>
                    /\ \A j \in 1..(i - 1) : strip_ns(ks[j].tag) # <<"evCCeCTe">>]>>
        ELSE << >>

\* Line 248: text = "\n".join(correcao_lista)
JoinLines(lines) == Join(<<"\n">>, lines)

\* Lines 211-248: iterating None raises TypeError.
StructuredCorrection(det) ==
    IF det = << >> THEN [raised |-> TRUE, text |-> << >>]
    ELSE LET ev_cce_cte == EvCCeCTe(det[1])
         IN  [raised |-> FALSE,
              text |-> JoinLines(IF ev_cce_cte # << >>
                                 THEN CorrecaoLista(ev_cce_cte[1].kids)
                                 ELSE << >>)]

\* Lines 203-251: the narrative; raised says an exception left the block.
CorrectionText(det, uri) ==
    LET direct == find_text_ns(det, uri, <<"xCorrecao">>)
        s == StructuredCorrection(det)
    IN  IF direct # << >> THEN [raised |-> FALSE, text |-> direct]
        ELSE IF s.raised
             THEN [raised |-> ~Caught("inf_correcao"), text |-> << >>]
             ELSE [raised |-> FALSE, text |-> s.text]

rodape ==
    <<"Este documento é uma representação gráfica da CC-e e foi impresso apenas para sua informação e não possui validade fiscal.", "\n", "A CC-e deve ser recebida e mantida em arquivo eletrônico XML e pode ser consultada através dos portais das SEFAZ.">>

\* ------------------------------------------------------------ actions

Init ==
    /\ xml \in XmlInputs
    /\ \E c \in CallerInputs : emitente = c[1] /\ image = c[2]
    /\ pc = "parse"
    /\ pages = 0
    /\ cmds = << >>
    /\ namespace_uri = << >>
    /\ is_nfe = FALSE
    /\ det_event = << >>
    /\ inf_event = << >>
    /\ inf_ret_event = << >>
    /\ key = << >>
    /\ barcode_failed = FALSE

\* A step ends: its commands are on the page, and an exception that no
\* try block catches leaves the constructor.
Advance(step, next, o) ==
    /\ cmds' = cmds \o o.out
    /\ pc' = IF o.raised /\ ~Caught(step) THEN "raised" ELSE next

\* Lines 28-53: the canvas is set up, the XML parsed, the nodes located.
Parse ==
    /\ pc = "parse"
    /\ LET r == FromString(xml)
           uri == NamespaceUri(r.root)
           ret_event == Find(r.root, uri, <<"retEvento">>)
       IN  IF r.raised
           THEN /\ pc' = "raised"
                /\ UNCHANGED <<namespace_uri, is_nfe, det_event, inf_event,
                               inf_ret_event>>
           ELSE /\ pc' = "issuer"
                /\ namespace_uri' = uri
                /\ is_nfe' = IsNfe(uri)
                /\ det_event' = Find(r.root, uri, <<"detEvento">>)
                /\ inf_event' = Find(r.root, uri, <<"infEvento">>)
                /\ inf_ret_event' = InfRetEvent(ret_event, uri)
    /\ UNCHANGED <<xml, emitente, image, pages, cmds, key, barcode_failed>>

\* Lines 55-91.
DrawIssuer ==
    /\ pc = "issuer"
    /\ pages' = pages + 1
    /\ Advance("issuer", "event_id", Ok(IssuerBox(emitente, image, is_nfe)))
    /\ UNCHANGED <<xml, emitente, image, namespace_uri, is_nfe, det_event,
                   inf_event, inf_ret_event, key, barcode_failed>>

\* Lines 93-99.
DrawEventId ==
    /\ pc = "event_id"
    /\ Advance("event_id", "created", EventIdLine(inf_event))
    /\ UNCHANGED <<xml, emitente, image, pages, namespace_uri, is_nfe, det_event,
                   inf_event, inf_ret_event, key, barcode_failed>>

\* Lines 101-106.
DrawCreated ==
    /\ pc = "created"
    /\ Advance("created", "protocol", CreatedLine(inf_event, namespace_uri))
    /\ UNCHANGED <<xml, emitente, image, pages, namespace_uri, is_nfe, det_event,
                   inf_event, inf_ret_event, key, barcode_failed>>

\* Lines 108-121.
DrawProtocol ==
    /\ pc = "protocol"
    /\ Advance("protocol", "advisory", ProtocolLine(inf_ret_event, namespace_uri))
    /\ UNCHANGED <<xml, emitente, image, pages, namespace_uri, is_nfe, det_event,
                   inf_event, inf_ret_event, key, barcode_failed>>

\* Lines 125-145: the advisory box, then the access key is read.
DrawAdvisory ==
    /\ pc = "advisory"
    /\ Advance("key", "barcode", Ok(AdvisoryBox))
    /\ key' = find_text_ns(inf_event, namespace_uri, TagChave(is_nfe))
    /\ UNCHANGED <<xml, emitente, image, pages, namespace_uri, is_nfe, det_event,
                   inf_event, inf_ret_event, barcode_failed>>

\* Lines 147-156: the barcode collaborator may refuse any key.
DrawBarcode ==
    /\ pc = "barcode"
    /\ \E fails \in BOOLEAN :
        /\ barcode_failed' = fails
        /\ Advance("barcode", "key_text", BarcodeImage(fails))
    /\ UNCHANGED <<xml, emitente, image, pages, namespace_uri, is_nfe, det_event,
                   inf_event, inf_ret_event, key>>

\* Lines 158-159.
DrawKeyText ==
    /\ pc = "key_text"
    /\ Advance("key_text", "recipient", Ok(KeyText(key)))
    /\ UNCHANGED <<xml, emitente, image, pages, namespace_uri, is_nfe, det_event,
                   inf_event, inf_ret_event, key, barcode_failed>>

\* Lines 161-175.
DrawRecipient ==
    /\ pc = "recipient"
    /\ Advance("recipient", "nota",
               RecipientLine(is_nfe, inf_event, inf_ret_event, namespace_uri))
    /\ UNCHANGED <<xml, emitente, image, pages, namespace_uri, is_nfe, det_event,
                   inf_event, inf_ret_event, key, barcode_failed>>

\* Lines 178-183.
DrawNota ==
    /\ pc = "nota"
    /\ Advance("nota", "cond_uso", NotaLine(key))
    /\ UNCHANGED <<xml, emitente, image, pages, namespace_uri, is_nfe, det_event,
                   inf_event, inf_ret_event, key, barcode_failed>>

\* Lines 185-193.
DrawCondUso ==
    /\ pc = "cond_uso"
    /\ Advance("cond_uso", "corrections", Ok(CondUso(det_event, namespace_uri)))
    /\ UNCHANGED <<xml, emitente, image, pages, namespace_uri, is_nfe, det_event,
                   inf_event, inf_ret_event, key, barcode_failed>>

\* Lines 195-254: the section header, the corrections box, the narrative.
DrawCorrections ==
    /\ pc = "corrections"
    /\ LET t == CorrectionText(det_event, namespace_uri)
           head == <<Text(11, 103, <<"CORREÇÕES A SEREM CONSIDERADAS">>),
                     Rect(10, 104, 190, 170)>>
       IN  Advance("corrections", "footer",
                   IF t.raised THEN [raised |-> TRUE, out |-> head]
                   ELSE Ok(head \o <<MultiCell(11, 106, 185, 4, t.text)>>))
    /\ UNCHANGED <<xml, emitente, image, pages, namespace_uri, is_nfe, det_event,
                   inf_event, inf_ret_event, key, barcode_failed>>

\* Lines 256-265.
DrawFooter ==
    /\ pc = "footer"
    /\ Advance("footer", "done", Ok(<<MultiCell(11, 265, 185, 4, rodape)>>))
    /\ UNCHANGED <<xml, emitente, image, pages, namespace_uri, is_nfe, det_event,
                   inf_event, inf_ret_event, key, barcode_failed>>

Next ==
    \/ Parse
    \/ DrawIssuer
    \/ DrawEventId
    \/ DrawCreated
    \/ DrawProtocol
    \/ DrawAdvisory
    \/ DrawBarcode
    \/ DrawKeyText
    \/ DrawRecipient
    \/ DrawNota
    \/ DrawCondUso
    \/ DrawCorrections
    \/ DrawFooter

Spec == Init /\ [][Next]_vars

\* ------------------------------------------- what the claims talk about

Done == pc = "done"

\* The commands of one kind issued at one place, in order.
CmdsAt(op, x, y) == SelectSeq(cmds, LAMBDA c : c.op = op /\ c.x = x /\ c.y = y)

EventIdLines == CmdsAt("text", 92, 30)

CreatedLines == CmdsAt("text", 92, 35)

ProtocolLines == CmdsAt("text", 92, 40)

BarcodeImages == CmdsAt("image", 127, 60)

KeyTextLines == CmdsAt("text", 130, 78)

RecipientLines == CmdsAt("text", 12, 71)

NotaLines == CmdsAt("text", 12, 76)

CondUsoCells == CmdsAt("multi_cell", 11, 84)

NarrativeCells == CmdsAt("multi_cell", 11, 106)

\* The local name of an element, whatever its namespace.
LocalName(e) == strip_ns(e.tag)

\* The root's namespace URI as XML defines it: empty for a root in no
\* namespace.
DocNamespace(root) ==
    IF root.tag # << >> /\ Head(root.tag) = "{"
    THEN SubSeq(root.tag, 2, IndexOf(root.tag, "}") - 1)
    ELSE << >>

RECURSIVE OutsideRetEvento(_)
\* The elements, in document order, that are not inside a retEvento.
OutsideRetEvento(ks) ==
    IF ks = << >> THEN << >>
    ELSE <<Head(ks)>>
         \o (IF LocalName(Head(ks)) = <<"retEvento">> THEN << >>
             ELSE OutsideRetEvento(Head(ks).kids))
         \o OutsideRetEvento(Tail(ks))

\* The first element of es with the local name, << >> without one.
FirstNamed(es, name) ==
    LET hits == SelectSeq(es, LAMBDA e : LocalName(e) = name)
    IN  IF hits = << >> THEN << >> ELSE <<hits[1]>>

\* The document's top-level infEvento: the first one outside retEvento.
DocTopInfEvento(root) == FirstNamed(OutsideRetEvento(root.kids), <<"infEvento">>)

\* The document's registration infEvento: the first one inside the first
\* retEvento.
DocRetInfEvento(root) ==
    LET ret == FirstNamed(Descendants(root), <<"retEvento">>)
    IN  IF ret = << >> THEN << >>
        ELSE FirstNamed(Descendants(ret[1]), <<"infEvento">>)

DocDetEvento(root) == FirstNamed(Descendants(root), <<"detEvento">>)

\* The trimmed text of the field of a node, empty for an absent node or
\* field.
FieldOf(node, name) ==
    IF node = << >> THEN << >>
    ELSE LET f == FirstNamed(Descendants(node[1]), <<name>>)
         IN  IF f = << >> THEN << >> ELSE Strip(f[1].text)

\* a if it is not empty, b otherwise.
OrElse(a, b) == IF a # << >> THEN a ELSE b

Namespaced == xml.wellformed /\ DocNamespace(xml.root) # << >>

ValidKey(k) == Len(k) = 44 /\ \A i \in 1..44 : k[i] \in DigitChars

AfterNota == pc \in {"cond_uso", "corrections", "footer", "done"}

\* The fixed elements of the page, in the order of the recipe: the issuer
\* box, the title and subtitle, the advisory box and text, the key text,
\* the section header, the corrections box, the footer.
FixedElements ==
    << <<"rect", 10, 10>>, <<"line", 90, 10>>, <<"text", 118, 16>>,
       <<"text", 123, 20>>, <<"rect", 10, 47>>, <<"line", 10, 83>>,
       <<"multi_cell", 11, 48>>, <<"text", 130, 78>>, <<"text", 11, 103>>,
       <<"rect", 10, 104>>, <<"multi_cell", 11, 265>> >>

Place(c) == <<c.op, c.x, c.y>>

Places(cs) == [i \in 1..Len(cs) |-> Place(cs[i])]

InFixed(pl) == \E i \in 1..Len(FixedElements) : FixedElements[i] = pl

\* Every fixed element was issued once, in the recipe's order.
PageComplete ==
    /\ pages = 1
    /\ SelectSeq(Places(cmds), InFixed) = FixedElements

\* The fields read from the event's own infEvento are empty or their line
\* is omitted.
TopFieldsEmpty ==
    /\ \A i \in 1..Len(EventIdLines) : EventIdLines[i].text = <<"ID do Evento: ">>
    /\ CreatedLines = << >>
    /\ KeyTextLines = <<Text(130, 78, << >>)>>
    /\ ~is_nfe =>
         RecipientLines = <<Text(12, 71, <<"Autor do Evento", ":  ">>
                                         \o format_cpf_cnpj(<< >>))>>

\* The fields read from the registration infEvento are empty or their
\* line is omitted.
RetFieldsEmpty ==
    /\ ProtocolLines = << >>
    /\ is_nfe =>
         RecipientLines = <<Text(12, 71, <<"CNPJ Destinatário", ":  ">>
                                         \o format_cpf_cnpj(<< >>))>>

DetFieldsEmpty ==
    /\ CondUsoCells = <<MultiCell(11, 84, 185, 3, << >>)>>
    /\ NarrativeCells = <<MultiCell(11, 106, 185, 4, << >>)>>

\* ----------------------------------------------------------------- C1

\* The part of C1 that holds of every input: a well-formed document never
\* makes the constructor raise, and a finished constructor has drawn one
\* page with every fixed element.
NeverRaisesAndPageComplete ==
    /\ xml.wellformed => pc # "raised"
    /\ Done => PageComplete

\* C1: for every well-formed document in a namespace, whichever of
\* detEvento, the top-level infEvento, retEvento and its nested infEvento
\* is absent, the constructor does not raise, draws one page with every
\* fixed element, and the fields that depend on an absent node are empty
\* or their line is omitted.
C1_AbsentNodesDegradeToEmpty ==
    Namespaced =>
        /\ pc # "raised"
        /\ Done =>
            /\ PageComplete
            /\ DocTopInfEvento(xml.root) = << >> => TopFieldsEmpty
            /\ DocRetInfEvento(xml.root) = << >> => RetFieldsEmpty
            /\ DocDetEvento(xml.root) = << >> => DetFieldsEmpty

\* ----------------------------------------------------------------- C2

\* C2: bytes that are not well-formed XML make the constructor fail in the
\* parse, before a page is started and before any drawing command.
C2_ParseErrorBeforeDrawing ==
    ~xml.wellformed => /\ pc \in {"parse", "raised"}
                       /\ pages = 0
                       /\ cmds = << >>

C2_Witness == ~xml.wellformed /\ pc = "raised" /\ pages = 0 /\ cmds = << >>

\* ----------------------------------------------------------------- C3

\* C3: when the extracted key is not a valid 44-digit string, no fault
\* occurs and no line with a document number or a series is drawn.
C3_InvalidKeyNoNumberNoSeries ==
    /\ (xml.wellformed /\ ~ValidKey(key)) => pc # "raised"
    /\ (AfterNota /\ ~ValidKey(key)) =>
          \A i \in 1..Len(NotaLines) :
              NotaLines[i].text = <<"Nota Fiscal: ", " - Série: ">>

\* ----------------------------------------------------------------- C4

\* What the recipe issues from the barcode step on, the document-number
\* line left out (it has a try block of its own).
RecipeFromBarcode ==
    << <<"text", 130, 78>>, <<"text", 12, 71>>, <<"multi_cell", 11, 84>>,
       <<"text", 11, 103>>, <<"rect", 10, 104>>, <<"multi_cell", 11, 106>>,
       <<"multi_cell", 11, 265>> >>

\* The places of the commands issued after the advisory text.
PlacesFromBarcode ==
    LET ps == Places(cmds)
        at == IndexOf(ps, <<"multi_cell", 11, 48>>)
    IN  SelectSeq(SubSeq(ps, at + 1, Len(ps)), LAMBDA pl : pl # <<"text", 12, 76>>)

\* C4: a failed barcode leaves out the barcode image and nothing else: the
\* constructor does not raise, and the commands after the barcode step
\* are those of a run whose barcode succeeds, in the same order.
C4_BarcodeFailureOmitsOnlyImage ==
    /\ barcode_failed => pc # "raised" /\ BarcodeImages = << >>
    /\ Done => PlacesFromBarcode =
                 (IF barcode_failed THEN << >> ELSE << <<"image", 127, 60>> >>)
                 \o RecipeFromBarcode

C4_Witness ==
    /\ Done /\ barcode_failed /\ key = << >>
    /\ BarcodeImages = << >>
    /\ PlacesFromBarcode = RecipeFromBarcode

\* ----------------------------------------------------------------- C5

\* C5: a protocol line is drawn at most once, and only when the nProt and
\* the dhRegEvento of the infEvento inside retEvento are both non-empty
\* after trimming; the line then shows both.
C5_ProtocolLineNeedsBoth ==
    LET reg == IF xml.wellformed THEN DocRetInfEvento(xml.root) ELSE << >>
        n_prot == FieldOf(reg, "nProt")
        dh == FieldOf(reg, "dhRegEvento")
    IN  /\ Len(ProtocolLines) <= 1
        /\ ProtocolLines # << >> =>
             /\ n_prot # << >>
             /\ dh # << >>
             /\ Len(ProtocolLines[1].text) > Len(n_prot) + 2
             /\ SubSeq(ProtocolLines[1].text, 1, Len(n_prot) + 2) =
                  <<"Protocolo: ">> \o n_prot \o <<" - Registrado na SEFAZ em: ">>

C5_Witness ==
    /\ Done
    /\ ProtocolLines =
         <<Text(92, 40, <<"Protocolo: ", "135240000000001",
                          " - Registrado na SEFAZ em: ", "01/05/2024", " ",
                          "10:00:05">>)>>

\* C5's other side is reached too: a registration with a timestamp and no
\* protocol number draws no line.
C5_SuppressedReached ==
    /\ Done /\ ProtocolLines = << >>
    /\ FieldOf(inf_ret_event, "dhRegEvento") # << >>
    /\ FieldOf(inf_ret_event, "nProt") = << >>

\* ----------------------------------------------------------------- C6

\* The recipient or author line the claim expects of a document.
ExpectedRecipientLine(root, nfe) ==
    LET reg == DocRetInfEvento(root)
        top == DocTopInfEvento(root)
    IN  IF nfe
        THEN Text(12, 71, <<"CNPJ Destinatário", ":  ">>
                          \o format_cpf_cnpj(OrElse(FieldOf(reg, "CNPJDest"),
                                                    FieldOf(reg, "CNPJ"))))
        ELSE Text(12, 71, <<"Autor do Evento", ":  ">>
                          \o format_cpf_cnpj(OrElse(FieldOf(top, "CNPJ"),
                                                    FieldOf(top, "CPF"))))

\* C6: for a document in a namespace, the invoice variant shows the
\* recipient label with CNPJDest, else CNPJ, of the registration infEvento,
\* and the transport variant shows the author label with CNPJ, else CPF,
\* of the top-level infEvento, never of the registration infEvento.
C6_RecipientOrAuthorSource ==
    (Done /\ Namespaced) =>
        RecipientLines = <<ExpectedRecipientLine(xml.root, is_nfe)>>

\* ----------------------------------------------------------------- C7

\* The text of the child of an entry with the local name, empty without.
EntryField(entry, name) ==
    LET f == FirstNamed(entry.kids, <<name>>)
    IN  IF f = << >> THEN << >> ELSE f[1].text

\* The line the claim expects of one infCorrecao entry.
ExpectedLine(entry) ==
    LET g == EntryField(entry, "grupoAlterado")
        n == EntryField(entry, "nroItemAlterado")
    IN  <<"Campo: ">> \o EntryField(entry, "campoAlterado")
        \o <<" | Valor: ">> \o EntryField(entry, "valorAlterado")
        \o (IF g = << >> THEN << >> ELSE <<" | Grupo: ">> \o g)
        \o (IF n = << >> THEN << >> ELSE <<" | Item: ">> \o n)

\* The infCorrecao entries of the evCCeCTe group of a detEvento.
EntriesOf(det) ==
    IF det = << >> THEN << >>
    ELSE LET grp == FirstNamed(det[1].kids, <<"evCCeCTe">>)
         IN  IF grp = << >> THEN << >>
             ELSE SelectSeq(grp[1].kids, LAMBDA e : LocalName(e) = <<"infCorrecao">>)

\* The narrative the claim expects of the detEvento the constructor found.
ExpectedNarrative(det) ==
    LET direct == FieldOf(det, "xCorrecao")
        es == EntriesOf(det)
    IN  IF direct # << >> THEN direct
        ELSE Concat([i \in 1..Len(es) |->
                        (IF i = 1 THEN << >> ELSE <<"\n">>) \o ExpectedLine(es[i])])

\* C7: the narrative is the trimmed xCorrecao of the located detEvento when
\* that is not empty, whatever the document kind; otherwise it is one line
\* per infCorrecao entry of the evCCeCTe group, in document order, joined
\* by newlines, 'Campo: c | Valor: v' with ' | Grupo: g' and then
\* ' | Item: n' only for a non-empty g and n; empty with neither.
C7_NarrativeDirectThenEntries ==
    Done => NarrativeCells = <<MultiCell(11, 106, 185, 4, ExpectedNarrative(det_event))>>

\* Two entries and no direct text: the second entry has neither group nor
\* item, the first has both.
C7_Witness ==
    /\ Done
    /\ FieldOf(det_event, "xCorrecao") = << >>
    /\ NarrativeCells =
         <<MultiCell(11, 106, 185, 4,
                     <<"Campo: ", "nCT", " | Valor: ", "100.00", " | Grupo: ", "ide",
                       " | Item: ", "2", "\n", "Campo: ", "xNome", " | Valor: ",
                       "ACME">>)>>

\* ----------------------------------------------------------------- C8

DottedNumber(k) ==
    <<k[26], k[27], k[28], ".", k[29], k[30], k[31], ".", k[32], k[33], k[34]>>

\* C9: for a valid 44-digit key the line shows the digits of positions
\* 25..33 as ddd.ddd.ddd and the three characters of positions 22..24 as
\* the series.
C9_NumberAndSeriesOfValidKey ==
    (AfterNota /\ ValidKey(key)) =>
        NotaLines = <<Text(12, 76, <<"Nota Fiscal: ">> \o DottedNumber(key)
                                   \o <<" - Série: ">> \o <<key[23], key[24], key[25]>>)>>

C9_Witness ==
    /\ Done
    /\ ValidKey(key)
    /\ NotaLines =
         <<Text(12, 76, <<"Nota Fiscal: ", "0", "0", "0", ".", "0", "0", "4", ".",
                          "5", "6", "7", " - Série: ", "1", "2", "3">>)>>

\* ---------------------------------------------------------------- C10

\* C10: a document in a namespace without a top-level infEvento shows an
\* empty event id, created-at, access key and (transport) author, never
\* those of the infEvento inside retEvento.
C10_NoTopInfEventoYieldsEmpty ==
    (Done /\ Namespaced /\ DocTopInfEvento(xml.root) = << >>) => TopFieldsEmpty

\* For a root in a namespace the kind does follow the namespace URI.
KindFromNamespaceUriWhenNamespaced ==
    (Namespaced /\ pc \notin {"parse", "raised"}) =>
        is_nfe = ContainsNfe(Lower(DocNamespace(xml.root)))

====
